---- MODULE Spec2Model ----
(***************************************************************************)
(* MRConfluenceLinker: the GitLab facade (gitlab_pr.py, GitLabPRManager)   *)
(* and the three MCP tools of PRAnalyzer (pr_analyzer.py).                 *)
(*                                                                         *)
(* Python strings that the code takes apart (project identifiers, file     *)
(* paths, diff texts) are sequences of one-character strings.  Optional    *)
(* arguments are sequences of length at most one: None is <<>>, a supplied *)
(* value v is <<v>>.  The two remote services are state of the model: what *)
(* each remote call answers is read from gl and wiki, and a transport      *)
(* failure of a call is drawn per handler run.                             *)
(***************************************************************************)
EXTENDS Integers, Sequences, FiniteSets, TLC

VARIABLES env, gl, wiki, self, call

vars == <<env, gl, wiki, self, call>>

-----------------------------------------------------------------------------
(* Bounds *)

\* at most this many of the environment settings are unset at process start
MaxMissing == 1

\* the merge request's remote change set has at most this many files
MaxChanges == 2

\* at most this many of the remote calls of one handler run fail in transport
MaxFaults == 1

-----------------------------------------------------------------------------
(* Python values *)

None == <<>>

Some(v) == <<v>>

IsNone(o) == Len(o) = 0

Val(o) == o[1]

\* dict.get(key, default)
Get(d, k, default) == IF k \in DOMAIN d THEN d[k] ELSE default

\* the empty dict {}
EmptyDict == [k \in {} |-> 0]

\* needle in s
Contains(s, ch) == \E i \in 1..Len(s) : s[i] = ch

\* s.count(ch)
RECURSIVE Count(_, _)
Count(s, ch) ==
    IF s = <<>> THEN 0
    ELSE (IF Head(s) = ch THEN 1 ELSE 0) + Count(Tail(s), ch)

\* project_id.replace('/', '%2F')
RECURSIVE Replace(_)
Replace(s) ==
    IF s = <<>> THEN <<>>
    ELSE (IF Head(s) = "/" THEN <<"%", "2", "F">> ELSE <<Head(s)>>) \o Replace(Tail(s))

\* file_path.split('.')[-1]
RECURSIVE LastSegment(_)
LastSegment(s) ==
    IF Contains(s, ".")
    THEN LastSegment(Tail(s))
    ELSE s

unknown == <<"u", "n", "k", "n", "o", "w", "n">>

\* file_path.split('.')[-1] if '.' in file_path else 'unknown'
FileType(file_path) ==
    IF Contains(file_path, ".") THEN LastSegment(file_path) ELSE unknown

-----------------------------------------------------------------------------
(* The process environment *)

EnvVars == {"GITLAB_URL", "GITLAB_TOKEN", "GITLAB_PROJECT_ID",
            "CONFLUENCE_URL", "CONFLUENCE_USERNAME", "CONFLUENCE_TOKEN",
            "CONFLUENCE_SPACE"}

\* os.getenv(var) is truthy
Getenv(var) == var \in env

-----------------------------------------------------------------------------
(* The remote services *)

ProjectIds == {<<"7">>, <<"g", "/", "r">>}

Keys == ProjectIds \cup {Replace(p) : p \in ProjectIds}

LookupStatus == {"ok", "notfound", "unauthorized"}

MRStates == {"opened", "closed", "merged"}

ChangeRecs ==
    { [new_path |-> <<"a", ".", "p">>, diff |-> <<"+", "x", "-", "+">>],
      [new_path |-> <<"M">>,           diff |-> <<"+", "-">>] }

RECURSIVE SeqsUpTo(_, _)
SeqsUpTo(S, n) ==
    IF n = 0 THEN {<<>>}
    ELSE LET shorter == SeqsUpTo(S, n - 1)
         IN  shorter \cup {Append(s, x) : s \in shorter, x \in S}

ChangeLists == SeqsUpTo(ChangeRecs, MaxChanges)

\* the iid of the one merge request the remote project may hold
MrIids == {1}

\* the mr_id arguments a caller supplies
MrIdArgs == {None, Some(0), Some(1)}

RemoteCalls == {"mergerequests.list", "mr.changes", "get_page_id", "create_page"}

\* which remote calls fail in transport during one handler run, if made
FaultSets == {f \in SUBSET RemoteCalls : Cardinality(f) <= MaxFaults}

\* what the remote project holds: no merge request, or one with its change set
RemoteMRs ==
    {[state |-> "absent", changes |-> <<>>]}
        \cup [state : MRStates, changes : ChangeLists]

ParentPageId == <<"p", "1">>

RemoteMRTitle == <<"T">>

-----------------------------------------------------------------------------
(* Results of a handler run *)

NoValue == [kind |-> "none"]

NoError == [exc |-> "none", msg |-> "", carries |-> {}]

Return(value, trace) ==
    [ok |-> TRUE, value |-> value, error |-> NoError, trace |-> trace]

Raise(error, trace) ==
    [ok |-> FALSE, value |-> NoValue, error |-> error, trace |-> trace]

\* one remote call: the endpoint, its argument, how it ended, what it answered
Called(api, arg, out, ret) == [api |-> api, arg |-> arg, out |-> out, ret |-> ret]

\* the exception python-gitlab raises for a lookup that does not answer "ok"
LookupError(status) ==
    IF status = "notfound"
    THEN [exc |-> "GitlabGetError", msg |-> "404 Not Found", carries |-> {}]
    ELSE [exc |-> "GitlabAuthenticationError", msg |-> "401 Unauthorized", carries |-> {}]

-----------------------------------------------------------------------------
(* gitlab_pr.py: GitLabPRManager *)

\* self.gl.projects.get(key)
ProjectsGet(key) == Called("projects.get", key, gl.projects[key], <<>>)

\* ResolveProject with the fallback repeating the identifier as given
ResolveProject_SameId(project_id) ==
    LET first == ProjectsGet(project_id)
    IN  IF first.out = "notfound"
        THEN <<first, ProjectsGet(project_id)>>
        ELSE <<first>>

\* the inner try/except of get_merge_requests: the lookups made, in order
ResolveProject(project_id) ==
    LET first == ProjectsGet(project_id)
    IN  IF first.out = "notfound"
        THEN <<first, ProjectsGet(Replace(project_id))>>
        ELSE <<first>>

\* the dict get_merge_requests and fetch_mr_details build from a merge request
MrInfo ==
    [id            |-> 1,
     title         |-> RemoteMRTitle,
     description   |-> "description",
     state         |-> gl.mr.state,
     created_at    |-> "created_at",
     updated_at    |-> "updated_at",
     author        |-> [name |-> "name", username |-> "username"],
     source_branch |-> "source_branch",
     target_branch |-> "target_branch",
     web_url       |-> "web_url"]

\* project.mergerequests.list(state=state), each mapped to its mr_info
ListMergeRequests(state) ==
    IF gl.mr.state = state THEN <<MrInfo>> ELSE <<>>

\* FacadeError with every failure reported by the catch-all clause
FacadeError_Generic(e, project_id, state) ==
    [exc |-> "Exception",
     msg |-> "An unexpected error occurred: {str(e)}",
     carries |-> {"cause"}]

\* the three except clauses that end get_merge_requests
FacadeError(e, project_id, state) ==
    IF e.exc = "GitlabAuthenticationError"
    THEN [exc |-> "Exception",
          msg |-> "Authentication failed. Please check your GitLab token.",
          carries |-> {}]
    ELSE IF e.exc = "GitlabGetError"
    THEN [exc |-> "Exception",
          msg |-> "Failed to retrieve merge requests for project {project_id}. Error: {str(e)}",
          carries |-> {"project_id", "cause"}]
    ELSE [exc |-> "Exception",
          msg |-> "An unexpected error occurred: {str(e)}",
          carries |-> {"cause"}]

get_merge_requests(project_id, state, faults) ==
    LET lookups  == ResolveProject(project_id)
        resolved == lookups[Len(lookups)]
    IN  IF resolved.out # "ok"
        THEN Raise(FacadeError(LookupError(resolved.out), project_id, state), lookups)
        ELSE IF "mergerequests.list" \in faults
        THEN Raise(FacadeError([exc |-> "GitlabListError", msg |-> "500", carries |-> {}],
                               project_id, state),
                   Append(lookups, Called("mergerequests.list", <<state>>, "error", <<>>)))
        ELSE LET mr_list == ListMergeRequests(state)
             IN  Return([kind |-> "list", items |-> mr_list],
                        Append(lookups, Called("mergerequests.list", <<state>>, "ok", mr_list)))

-----------------------------------------------------------------------------
(* pr_analyzer.py: the registered tools *)

\* `if mr_id:` -- None and 0 are falsy
Truthy(mr_id) == ~IsNone(mr_id) /\ Val(mr_id) # 0

\* project.mergerequests.get(mr_id)
MergeRequestsGet(mr_id) ==
    Called("mergerequests.get", <<mr_id>>,
           IF mr_id \in MrIids /\ gl.mr.state # "absent" THEN "ok" ELSE "notfound", <<>>)

\* MrChanges with the change set fetched whatever the state
MrChanges_AnyState(faults) ==
    <<Called("mr.changes", <<>>,
             IF "mr.changes" \in faults THEN "error" ELSE "ok", gl.mr.changes)>>

\* mr.changes()['changes'] if mr.state == 'opened' else []
MrChanges(faults) ==
    IF gl.mr.state = "opened"
    THEN <<Called("mr.changes", <<>>,
                  IF "mr.changes" \in faults THEN "error" ELSE "ok", gl.mr.changes)>>
    ELSE <<>>

\* the project lookup of the mr_id branch of fetch_mr_details
FetchProject(project_id) == <<ProjectsGet(project_id)>>

fetch_mr_details(project_id, mr_id, faults) ==
    IF Truthy(mr_id)
    THEN LET lookups  == FetchProject(project_id)
             resolved == lookups[Len(lookups)]
             got      == MergeRequestsGet(Val(mr_id))
             diff     == MrChanges(faults)
         IN  IF resolved.out # "ok"
             THEN Raise(LookupError(resolved.out), lookups)
             ELSE IF got.out # "ok"
             THEN Raise(LookupError(got.out), Append(lookups, got))
             ELSE IF diff # <<>> /\ diff[1].out # "ok"
             THEN Raise([exc |-> "GitlabGetError", msg |-> "500", carries |-> {}],
                        Append(lookups, got) \o diff)
             ELSE Return([kind |-> "dict",
                          d |-> [id            |-> MrInfo.id,
                                 title         |-> MrInfo.title,
                                 description   |-> MrInfo.description,
                                 state         |-> MrInfo.state,
                                 created_at    |-> MrInfo.created_at,
                                 updated_at    |-> MrInfo.updated_at,
                                 author        |-> MrInfo.author,
                                 source_branch |-> MrInfo.source_branch,
                                 target_branch |-> MrInfo.target_branch,
                                 web_url       |-> MrInfo.web_url,
                                 changes       |-> IF diff = <<>> THEN <<>> ELSE diff[1].ret]],
                         Append(lookups, got) \o diff)
    ELSE get_merge_requests(project_id, "opened", faults)

\* the per-file entry appended to analysis['files']
FileEntry(change) ==
    [path      |-> change.new_path,
     type      |-> FileType(change.new_path),
     additions |-> Count(change.diff, "+"),
     deletions |-> Count(change.diff, "-")]

\* AnalyzeStep with the deletions total fed by the '+' count
AnalyzeStep_CopyPaste(analysis, change) ==
    LET file_type == FileType(change.new_path)
    IN  [analysis EXCEPT
           !.file_types = [t \in DOMAIN analysis.file_types \cup {file_type} |->
                             IF t = file_type
                             THEN Get(analysis.file_types, file_type, 0) + 1
                             ELSE analysis.file_types[t]],
           !.total_additions = @ + Count(change.diff, "+"),
           !.total_deletions = @ + Count(change.diff, "+"),
           !.files = Append(@, FileEntry(change))]

\* one iteration of `for change in changes`
AnalyzeStep(analysis, change) ==
    LET file_type == FileType(change.new_path)
    IN  [analysis EXCEPT
           !.file_types = [t \in DOMAIN analysis.file_types \cup {file_type} |->
                             IF t = file_type
                             THEN Get(analysis.file_types, file_type, 0) + 1
                             ELSE analysis.file_types[t]],
           !.total_additions = @ + Count(change.diff, "+"),
           !.total_deletions = @ + Count(change.diff, "-"),
           !.files = Append(@, FileEntry(change))]

RECURSIVE AnalyzeLoop(_, _)
AnalyzeLoop(analysis, changes) ==
    IF changes = <<>> THEN analysis
    ELSE AnalyzeLoop(AnalyzeStep(analysis, Head(changes)), Tail(changes))

\* the report built from mr_details.get('changes', [])
Analysis(changes) ==
    AnalyzeLoop([total_files_changed |-> Len(changes),
                 file_types          |-> EmptyDict,
                 total_additions     |-> 0,
                 total_deletions     |-> 0,
                 files               |-> <<>>],
                changes)

analyze_code_changes(project_id, mr_id, faults) ==
    LET fetched == fetch_mr_details(project_id, mr_id, faults)
    IN  IF ~fetched.ok
        THEN fetched
        ELSE IF fetched.value.kind # "dict"
        THEN Raise([exc |-> "AttributeError",
                    msg |-> "'list' object has no attribute 'get'", carries |-> {}],
                   fetched.trace)
        ELSE Return([kind |-> "dict", d |-> Analysis(Get(fetched.value.d, "changes", <<>>))],
                    fetched.trace)

\* the "Basic Information" items both single-MR templates render
BasicInformation(mr_details) ==
    [title         |-> mr_details.title,
     id            |-> mr_details.id,
     state         |-> mr_details.state,
     author        |-> mr_details.author.name,
     source_branch |-> mr_details.source_branch,
     target_branch |-> mr_details.target_branch,
     web_url       |-> mr_details.web_url]

\* content of the summary page: one block per listed merge request
SummaryContent(mr_list) ==
    [heading |-> "h2. Merge Requests Summary",
     blocks  |-> [i \in 1..Len(mr_list) |-> BasicInformation(mr_list[i])]]

\* content when analysis is None
DetailContent(mr_details) ==
    [heading |-> "h2. Merge Request Details",
     info    |-> BasicInformation(mr_details),
     changes |-> Get(mr_details, "changes", <<>>)]

\* content when an analysis is supplied
ReportContent(mr_details, analysis) ==
    [heading             |-> "h2. Merge Request Analysis Report",
     info                |-> BasicInformation(mr_details),
     total_files_changed |-> Get(analysis, "total_files_changed", 0),
     total_additions     |-> Get(analysis, "total_additions", 0),
     total_deletions     |-> Get(analysis, "total_deletions", 0),
     file_types          |-> Get(analysis, "file_types", EmptyDict),
     rows                |-> LET files == Get(analysis, "files", <<>>)
                             IN  [i \in 1..Len(files) |->
                                    <<files[i].path, files[i].type,
                                      files[i].additions, files[i].deletions>>]]

\* self.confluence.get_page_id(self.confluence_space, "PR Analysis Reports")
GetPageId(faults) ==
    Called("get_page_id",
           [space |-> self.confluence_space, title |-> "PR Analysis Reports"],
           IF "get_page_id" \in faults THEN "error" ELSE "ok",
           IF wiki.parent THEN Some(ParentPageId) ELSE None)

\* self.confluence.create_page(space=..., title=..., body=..., parent_id=...)
CreatePage(page_title, content, parent_id, faults) ==
    Called("create_page",
           [space     |-> self.confluence_space,
            title     |-> page_title,
            body      |-> content,
            parent_id |-> parent_id],
           IF "create_page" \in faults THEN "error" ELSE "ok",
           [base |-> "base", webui |-> page_title])

\* Publish with a failed parent lookup swallowed: the page is created anyway
Publish_SwallowLookup(page_title, content, trace, faults) ==
    LET lookup == GetPageId(faults)
        create == CreatePage(page_title, content,
                             IF lookup.out = "ok" THEN lookup.ret ELSE None, faults)
    IN  IF create.out # "ok"
        THEN Raise([exc |-> "ConfluenceError", msg |-> "create_page", carries |-> {}],
                   trace \o <<lookup, create>>)
        ELSE Return([kind |-> "str", s |-> create.ret], trace \o <<lookup, create>>)

\* the parent lookup, the page creation and the returned URL
Publish(page_title, content, trace, faults) ==
    LET lookup == GetPageId(faults)
        create == CreatePage(page_title, content, lookup.ret, faults)
    IN  IF lookup.out # "ok"
        THEN Raise([exc |-> "ConfluenceError", msg |-> "get_page_id", carries |-> {}],
                   Append(trace, lookup))
        ELSE IF create.out # "ok"
        THEN Raise([exc |-> "ConfluenceError", msg |-> "create_page", carries |-> {}],
                   trace \o <<lookup, create>>)
        ELSE Return([kind |-> "str", s |-> create.ret], trace \o <<lookup, create>>)

\* `if mr_id is None` in store_in_confluence
BulkSelected(mr_id) == IsNone(mr_id)

\* ConfluenceMissing testing the space setting instead of the client
ConfluenceMissing_Space == IsNone(self.confluence_space)

\* `if not self.confluence`
ConfluenceMissing == ~self.confluence

store_in_confluence(project_id, mr_id, analysis, faults) ==
    IF ConfluenceMissing
    THEN Raise([exc |-> "ValueError",
                msg |-> "Confluence integration is not configured", carries |-> {}],
               <<>>)
    ELSE LET fetched == fetch_mr_details(project_id,
                                         IF BulkSelected(mr_id) THEN None ELSE mr_id,
                                         faults)
         IN  IF ~fetched.ok
             THEN fetched
             ELSE IF BulkSelected(mr_id)
             THEN IF fetched.value.kind = "list"
                  THEN Publish([prefix |-> "MR Summary - ", arg |-> project_id],
                               SummaryContent(fetched.value.items), fetched.trace, faults)
                  ELSE Raise([exc |-> "ValueError",
                              msg |-> "Unexpected response format from fetch_mr_details",
                              carries |-> {}],
                             fetched.trace)
             ELSE IF fetched.value.kind # "dict"
             THEN Raise([exc |-> "TypeError",
                         msg |-> "list indices must be integers or slices, not str",
                         carries |-> {}],
                        fetched.trace)
             ELSE Publish([prefix |-> "MR Analysis - ", arg |-> fetched.value.d.title],
                          IF IsNone(analysis)
                          THEN DetailContent(fetched.value.d)
                          ELSE ReportContent(fetched.value.d, Val(analysis)),
                          fetched.trace, faults)

\* required_vars of PRAnalyzer.__init__
RequiredVars == {"GITLAB_TOKEN", "GITLAB_PROJECT_ID"}

\* ConfluenceConfigured with any() in place of all()
ConfluenceConfigured_Any ==
    Getenv("CONFLUENCE_URL") \/ Getenv("CONFLUENCE_USERNAME") \/ Getenv("CONFLUENCE_TOKEN")

\* all([self.confluence_url, self.confluence_username, self.confluence_token])
ConfluenceConfigured ==
    Getenv("CONFLUENCE_URL") /\ Getenv("CONFLUENCE_USERNAME") /\ Getenv("CONFLUENCE_TOKEN")

NotConstructed ==
    [status |-> "none", gitlab_url |-> "", confluence |-> FALSE,
     confluence_space |-> None, error |-> NoError]

\* PRAnalyzer.__init__, with GitLabPRManager.__init__ inside it
PRAnalyzer ==
    LET missing_vars == {var \in RequiredVars : ~Getenv(var)}
    IN  IF missing_vars # {}
        THEN [NotConstructed EXCEPT
                !.status = "aborted",
                !.error = [exc |-> "ValueError",
                           msg |-> "Missing required environment variables",
                           carries |-> missing_vars]]
        ELSE IF ~gl.auth
        THEN [NotConstructed EXCEPT
                !.status = "aborted",
                !.error = [exc |-> "GitlabAuthenticationError",
                           msg |-> "401 Unauthorized", carries |-> {}]]
        ELSE [status           |-> "ready",
              gitlab_url       |-> IF Getenv("GITLAB_URL")
                                   THEN "GITLAB_URL" ELSE "https://gitlab.com",
              confluence       |-> ConfluenceConfigured,
              confluence_space |-> IF Getenv("CONFLUENCE_SPACE")
                                   THEN Some("CONFLUENCE_SPACE") ELSE None,
              error            |-> NoError]

-----------------------------------------------------------------------------
(* The state machine *)

\* the analysis arguments a caller supplies to store_in_confluence
AnalysisArgs ==
    {None, Some(EmptyDict),
     Some(Analysis(<< [new_path |-> <<"a", ".", "p">>, diff |-> <<"+", "x", "-", "+">>] >>))}

NoCall ==
    [op |-> "none", project_id |-> <<>>, mr_id |-> None, analysis |-> None,
     state |-> "", result |-> Return(NoValue, <<>>)]

Init ==
    /\ env \in {e \in SUBSET EnvVars : Cardinality(EnvVars \ e) <= MaxMissing}
    /\ gl \in [auth     : BOOLEAN,
               projects : [Keys -> LookupStatus],
               mr       : RemoteMRs]
    /\ wiki \in [parent : BOOLEAN]
    /\ self = NotConstructed
    /\ call = NoCall

\* analyzer = PRAnalyzer()
Construct ==
    /\ self.status = "none"
    /\ self' = PRAnalyzer
    /\ UNCHANGED <<env, gl, wiki, call>>

CallGetMergeRequests ==
    /\ self.status = "ready"
    /\ call.op = "none"
    /\ \E project_id \in ProjectIds, state \in MRStates, faults \in FaultSets :
         call' = [op |-> "get_merge_requests", project_id |-> project_id,
                  mr_id |-> None, analysis |-> None, state |-> state,
                  result |-> get_merge_requests(project_id, state, faults)]
    /\ UNCHANGED <<env, gl, wiki, self>>

CallFetchMrDetails ==
    /\ self.status = "ready"
    /\ call.op = "none"
    /\ \E project_id \in ProjectIds, mr_id \in MrIdArgs, faults \in FaultSets :
         call' = [op |-> "fetch_mr_details", project_id |-> project_id,
                  mr_id |-> mr_id, analysis |-> None, state |-> "",
                  result |-> fetch_mr_details(project_id, mr_id, faults)]
    /\ UNCHANGED <<env, gl, wiki, self>>

CallAnalyzeCodeChanges ==
    /\ self.status = "ready"
    /\ call.op = "none"
    /\ \E project_id \in ProjectIds, mr_id \in MrIdArgs \ {None},
          faults \in FaultSets :
         call' = [op |-> "analyze_code_changes", project_id |-> project_id,
                  mr_id |-> mr_id, analysis |-> None, state |-> "",
                  result |-> analyze_code_changes(project_id, mr_id, faults)]
    /\ UNCHANGED <<env, gl, wiki, self>>

CallStoreInConfluence ==
    /\ self.status = "ready"
    /\ call.op = "none"
    /\ \E project_id \in ProjectIds, mr_id \in MrIdArgs, analysis \in AnalysisArgs,
          faults \in FaultSets :
         call' = [op |-> "store_in_confluence", project_id |-> project_id,
                  mr_id |-> mr_id, analysis |-> analysis, state |-> "",
                  result |-> store_in_confluence(project_id, mr_id, analysis, faults)]
    /\ UNCHANGED <<env, gl, wiki, self>>

\* the result or the error goes back to the tool-invocation runtime
Deliver ==
    /\ call.op # "none"
    /\ call' = NoCall
    /\ UNCHANGED <<env, gl, wiki, self>>

Next ==
    \/ Construct
    \/ CallGetMergeRequests
    \/ CallFetchMrDetails
    \/ CallAnalyzeCodeChanges
    \/ CallStoreInConfluence
    \/ Deliver

Spec == Init /\ [][Next]_vars

-----------------------------------------------------------------------------
(* Vocabulary of the properties *)

result == call.result

trace == result.trace

IsLookup(e) == e.api = "projects.get"

\* the project lookups of the last handler run, in order
Lookups == SelectSeq(trace, IsLookup)

\* how often the last handler run called an endpoint
RECURSIVE CallsTo(_, _)
CallsTo(t, api) ==
    IF t = <<>> THEN 0
    ELSE (IF Head(t).api = api THEN 1 ELSE 0) + CallsTo(Tail(t), api)

Made(api) == CallsTo(trace, api) > 0

\* the identifier with every '/' written '%2F'
Encoded(project_id) ==
    IF project_id = <<"g", "/", "r">> THEN <<"g", "%", "2", "F", "r">> ELSE project_id

\* the remote knows a project under this key
Valid(key) == gl.projects[key] = "ok"

RECURSIVE SumField(_, _)
SumField(files, field) ==
    IF files = <<>> THEN 0 ELSE Head(files)[field] + SumField(Tail(files), field)

RECURSIVE SumValues(_)
SumValues(d) ==
    IF DOMAIN d = {} THEN 0
    ELSE LET k == CHOOSE x \in DOMAIN d : TRUE
         IN  d[k] + SumValues([x \in DOMAIN d \ {k} |-> d[x]])

ZeroReport ==
    [total_files_changed |-> 0, file_types |-> EmptyDict, total_additions |-> 0,
     total_deletions |-> 0, files |-> <<>>]

-----------------------------------------------------------------------------
(* C1 *)

\* C1: get_merge_requests resolves the project in at most two lookups.  The
\* first uses the identifier as given; if it succeeds there is no second; if
\* it fails as not-found there is exactly one more, for the identifier with
\* every '/' written '%2F', and the project is resolved (the listing is
\* reached) exactly when that encoded form is a valid project path.
C1_TwoStepLookup ==
    call.op = "get_merge_requests" =>
        /\ Len(Lookups) \in {1, 2}
        /\ Lookups[1].arg = call.project_id
        /\ Valid(call.project_id) => Len(Lookups) = 1 /\ Made("mergerequests.list")
        /\ gl.projects[call.project_id] = "notfound" =>
              /\ Len(Lookups) = 2
              /\ Lookups[2].arg = Encoded(call.project_id)
              /\ Made("mergerequests.list") <=> Valid(Encoded(call.project_id))
        /\ Len(Lookups) = 2 => gl.projects[call.project_id] = "notfound"

C1_Witness ==
    /\ call.op = "get_merge_requests"
    /\ call.project_id = <<"g", "/", "r">>
    /\ Len(Lookups) = 2
    /\ Lookups[2].arg = <<"g", "%", "2", "F", "r">>
    /\ result.ok

-----------------------------------------------------------------------------
(* C2 *)

\* C2: in every report analyze_code_changes returns, total_additions and
\* total_deletions are the sums of the per-file additions and deletions, and
\* the file_types counts add up to total_files_changed, the length of files.
C2_ReportTotals ==
    (call.op = "analyze_code_changes" /\ result.ok) =>
        LET report == result.value.d
        IN  /\ report.total_additions = SumField(report.files, "additions")
            /\ report.total_deletions = SumField(report.files, "deletions")
            /\ SumValues(report.file_types) = report.total_files_changed
            /\ report.total_files_changed = Len(report.files)
            /\ Len(report.files) = Len(gl.mr.changes) \/ gl.mr.state # "opened"

C2_Witness ==
    /\ call.op = "analyze_code_changes"
    /\ result.ok
    /\ Len(result.value.d.files) = 2
    /\ Cardinality(DOMAIN result.value.d.file_types) = 2
    /\ result.value.d.total_additions = 3
    /\ result.value.d.total_deletions = 2

-----------------------------------------------------------------------------
(* C3 *)

\* C3: with no wiki client (self.confluence is None) store_in_confluence
\* fails with the configuration error, for all arguments, before any remote
\* call: nothing is fetched, no parent is looked up, no page is created.
C3_NoClientNoCalls ==
    (call.op = "store_in_confluence" /\ ~self.confluence) =>
        /\ ~result.ok
        /\ result.error.exc = "ValueError"
        /\ result.error.msg = "Confluence integration is not configured"
        /\ trace = <<>>

C3_Witness ==
    /\ call.op = "store_in_confluence"
    /\ ~self.confluence
    /\ ~IsNone(self.confluence_space)
    /\ call.mr_id = Some(1)
    /\ ~IsNone(call.analysis)
    /\ Valid(call.project_id)
    /\ ~result.ok

-----------------------------------------------------------------------------
(* C4 *)

\* C4: for a closed or merged merge request of a project that resolves,
\* fetch_mr_details returns a record whose changes are empty without asking
\* the remote for the change set, whatever it holds, and analyze_code_changes
\* returns the zero-valued report, not an error.
C4_ClosedHasNoChanges ==
    ( /\ call.op \in {"fetch_mr_details", "analyze_code_changes"}
      /\ call.mr_id = Some(1)
      /\ gl.mr.state \in {"closed", "merged"}
      /\ Valid(call.project_id) ) =>
        /\ result.ok
        /\ ~Made("mr.changes")
        /\ call.op = "fetch_mr_details" =>
              /\ result.value.kind = "dict"
              /\ result.value.d.changes = <<>>
              /\ result.value.d.state = gl.mr.state
        /\ call.op = "analyze_code_changes" => result.value.d = ZeroReport

C4_Witness ==
    /\ call.op = "analyze_code_changes"
    /\ call.mr_id = Some(1)
    /\ gl.mr.state = "merged"
    /\ Len(gl.mr.changes) = 2
    /\ result.ok
    /\ result.value.d.total_files_changed = 0

-----------------------------------------------------------------------------
(* C5 *)

\* every remote call the last handler run made was answered
AllAnswered == \A i \in 1..Len(trace) : trace[i].out = "ok"

\* the create_page calls of the last handler run
IsCreate(e) == e.api = "create_page"

Created == SelectSeq(trace, IsCreate)

\* C5: with the wiki client configured and every remote call answered,
\* store_in_confluence creates exactly one page whose shape follows from
\* which arguments are present: mr_id absent, the summary page titled by the
\* project and built from the listing; mr_id present (0 included), a page
\* titled by the merge request, detail-only without an analysis and the
\* full report with one (an empty map included).
C5_ShapeByPresence ==
    (call.op = "store_in_confluence" /\ self.confluence /\ AllAnswered) =>
        /\ result.ok
        /\ Len(Created) = 1
        /\ LET page == Created[1].arg
           IN  IF IsNone(call.mr_id)
               THEN /\ page.title = [prefix |-> "MR Summary - ", arg |-> call.project_id]
                    /\ page.body.heading = "h2. Merge Requests Summary"
                    /\ Made("mergerequests.list")
               ELSE /\ page.title = [prefix |-> "MR Analysis - ", arg |-> RemoteMRTitle]
                    /\ ~Made("mergerequests.list")
                    /\ page.body.heading = IF IsNone(call.analysis)
                                           THEN "h2. Merge Request Details"
                                           ELSE "h2. Merge Request Analysis Report"

-----------------------------------------------------------------------------
(* C6 *)

\* C6: every page store_in_confluence creates lies under the parent page
\* "PR Analysis Reports": the create_page call follows a get_page_id call of
\* the same run for that title in the configured space, and its parent_id is
\* the id of that parent page, also when the wiki holds no such page.
C6_UnderParent ==
    call.op = "store_in_confluence" =>
        \A i \in 1..Len(trace) :
            trace[i].api = "create_page" =>
                /\ i > 1
                /\ trace[i - 1].api = "get_page_id"
                /\ trace[i - 1].arg.title = "PR Analysis Reports"
                /\ trace[i - 1].arg.space = self.confluence_space
                /\ trace[i].arg.parent_id = trace[i - 1].ret
                /\ trace[i].arg.parent_id = Some(ParentPageId)

-----------------------------------------------------------------------------
(* C7 *)

\* both lookups of the last get_merge_requests run failed
ResolutionFailed ==
    /\ call.op = "get_merge_requests"
    /\ Len(Lookups) = 2
    /\ Lookups[2].out # "ok"

\* C7 as stated: when both lookups fail, get_merge_requests raises an error
\* that carries the original project identifier and the requested state.
C7_CarriesIdAndState ==
    ResolutionFailed =>
        /\ ~result.ok
        /\ {"project_id", "state"} \subseteq result.error.carries

\* C7 as amended: when both lookups fail, get_merge_requests returns no list
\* and raises an error that never carries the requested state, and carries
\* the original project identifier exactly when the encoded lookup failed as
\* not-found.
C7_CarriesIdOnNotFound ==
    ResolutionFailed =>
        /\ ~result.ok
        /\ result.value = NoValue
        /\ result.error.exc = "Exception"
        /\ ~Made("mergerequests.list")
        /\ "state" \notin result.error.carries
        /\ "project_id" \in result.error.carries <=> Lookups[2].out = "notfound"

C7_Witness ==
    /\ ResolutionFailed
    /\ call.project_id = <<"g", "/", "r">>
    /\ call.state = "merged"
    /\ Lookups[2].out = "notfound"
    /\ "project_id" \in result.error.carries

-----------------------------------------------------------------------------
(* C8 *)

\* the call at position i of the last run failed and was not the direct
\* project lookup that the percent-encoded lookup follows
FailedAt(i) ==
    /\ trace[i].out # "ok"
    /\ ~(/\ trace[i].api = "projects.get"
         /\ trace[i].out = "notfound"
         /\ i < Len(trace)
         /\ trace[i + 1].api = "projects.get"
         /\ trace[i + 1].arg = Encoded(trace[i].arg))

\* C8: in fetch_mr_details, analyze_code_changes and store_in_confluence a
\* failed remote call is the last call of the run and the run raises: it
\* returns no record, report or URL.  A run that returns made only answered
\* calls (but for a direct lookup the encoded one replaced), returns the
\* whole record, and no endpoint is called twice except the one encoded
\* project lookup.
C8_AllOrNothing ==
    call.op \in {"fetch_mr_details", "analyze_code_changes", "store_in_confluence"} =>
        /\ \A i \in 1..Len(trace) :
              FailedAt(i) => i = Len(trace) /\ ~result.ok /\ result.value = NoValue
        /\ result.ok => \A i \in 1..Len(trace) : ~FailedAt(i)
        /\ result.ok <=> result.value # NoValue
        /\ result.ok <=> result.error = NoError
        /\ (call.op = "fetch_mr_details" /\ result.ok /\ result.value.kind = "dict") =>
              result.value.d.changes =
                  IF gl.mr.state = "opened" THEN gl.mr.changes ELSE <<>>
        /\ (call.op = "store_in_confluence" /\ result.ok) =>
              /\ result.value.kind = "str"
              /\ CallsTo(trace, "create_page") = 1
        /\ \A api \in RemoteCalls \cup {"mergerequests.get"} : CallsTo(trace, api) <= 1
        /\ Len(Lookups) <= 2
        /\ Len(Lookups) = 2 =>
              /\ Lookups[1].out = "notfound"
              /\ Lookups[2].arg = Encoded(Lookups[1].arg)

C8_Witness ==
    /\ call.op = "store_in_confluence"
    /\ Len(Lookups) = 2
    /\ trace[Len(trace)].api = "create_page"
    /\ trace[Len(trace)].out = "error"
    /\ ~result.ok

-----------------------------------------------------------------------------
(* C9 *)

HostingSettings == {"GITLAB_URL", "GITLAB_TOKEN", "GITLAB_PROJECT_ID"}

WikiSettings ==
    {"CONFLUENCE_URL", "CONFLUENCE_USERNAME", "CONFLUENCE_TOKEN", "CONFLUENCE_SPACE"}

\* the last run ended with the configuration error of store_in_confluence
ConfigurationError ==
    /\ ~result.ok
    /\ result.error.exc = "ValueError"
    /\ result.error.msg = "Confluence integration is not configured"

\* C9 as stated: construction aborts whenever a hosting-platform setting
\* (base URL, token, project identifier) is missing or the token is
\* rejected, and only then; with a wiki setting (URL, username, token,
\* space) missing the instance is built and store_in_confluence fails with
\* the configuration error.
C9_AbortsOnAnyHostingSetting ==
    self.status # "none" =>
        /\ self.status = "aborted" <=> (HostingSettings \ env # {} \/ ~gl.auth)
        /\ (self.status = "ready" /\ call.op = "store_in_confluence"
              /\ WikiSettings \ env # {}) => ConfigurationError

\* C9 as amended: construction aborts exactly when the access token or the
\* project identifier is missing or the token is rejected; a missing base
\* URL falls back to https://gitlab.com and missing wiki settings never
\* abort.  The instance serves fetch_mr_details and analyze_code_changes
\* whatever the wiki settings, and store_in_confluence fails with the
\* configuration error exactly when the wiki URL, username or token is
\* missing (a missing space alone does not disable it).
C9_AbortsOnTokenOrProject ==
    self.status # "none" =>
        /\ self.status = "aborted" <=>
              ({"GITLAB_TOKEN", "GITLAB_PROJECT_ID"} \ env # {} \/ ~gl.auth)
        /\ self.status = "aborted" => call.op = "none" /\ self.error # NoError
        /\ self.status = "ready" =>
              /\ self.gitlab_url =
                    IF "GITLAB_URL" \in env THEN "GITLAB_URL" ELSE "https://gitlab.com"
              /\ call.op = "store_in_confluence" =>
                    (ConfigurationError <=>
                        {"CONFLUENCE_URL", "CONFLUENCE_USERNAME", "CONFLUENCE_TOKEN"}
                            \ env # {})
              /\ call.op \in {"fetch_mr_details", "analyze_code_changes"} =>
                    /\ ~ConfigurationError
                    /\ (AllAnswered /\ (call.op = "fetch_mr_details" \/ Truthy(call.mr_id)))
                          => result.ok

C9_Witness ==
    /\ self.status = "ready"
    /\ "CONFLUENCE_USERNAME" \notin env
    /\ call.op = "store_in_confluence"
    /\ ConfigurationError

-----------------------------------------------------------------------------
(* C10 *)

\* C10: with an mr_id, fetch_mr_details and analyze_code_changes resolve the
\* project whenever get_merge_requests would: an identifier that resolves in
\* the listing path, directly or percent-encoded, gets as far as fetching
\* the merge request.
C10_SameResolution ==
    (call.op \in {"fetch_mr_details", "analyze_code_changes"} /\ Truthy(call.mr_id)) =>
        LET lookups == ResolveProject(call.project_id)
        IN  lookups[Len(lookups)].out = "ok" => Made("mergerequests.get")

====
